---- MODULE Spec2Model ----
(***************************************************************************)
(* VideoStore (src/lib/components/video/VideoStore.svelte.js) over the     *)
(* videosMock.js data module.                                              *)
(*                                                                         *)
(* JavaScript objects are modelled by reference: there is a heap of video  *)
(* record objects, a heap of arrays and a heap of VideoStore objects; a    *)
(* variable or a field that holds an object holds its address.  Objects    *)
(* no reference leads to any more are dropped from the heaps (garbage      *)
(* collection), which no code can observe.                                 *)
(***************************************************************************)
EXTENDS Integers, Sequences, FiniteSets, TLC

VARIABLES
    records,              \* heap of video records: address (1..n) -> record
    arrays,               \* heap of arrays: address -> sequence of elements
    stores,               \* heap of VideoStore objects: address -> [videos]
    VideoStore_instance,  \* the static VideoStore.instance
    instance,             \* the module constant `instance`, the default export
    handle,               \* per caller: the store object it holds
    result,               \* per caller: what its last call returned
    edits                 \* how many edits callers have made to returned arrays

vars == <<records, arrays, stores, VideoStore_instance, instance, handle, result, edits>>

----------------------------------------------------------------------------
(* Bounds *)

\* longest generated dataset
MaxLen == 3

\* number of callers (components that import the store)
NCallers == 2

\* most edits callers make to the arrays returned to them
MaxEdits == 1

Callers == 1..NCallers

----------------------------------------------------------------------------
(* Values *)

\* JavaScript's undefined: an unset static, a missing field, find's miss
Undefined == 0

\* address of the array literal of videosMock.js, bound to `videos` there
\* and imported under the same name by the store module
VideosAddr == 1

\* address of the array a call made by caller c returns, when it makes one
ResultAddr(c) == VideosAddr + c

\* addresses for VideoStore objects: the static, the export and each
\* caller's handle can keep one alive each, and `new` needs one more
StoreAddrs == 1..(NCallers + 3)

\* the shipped dataset
videosMock ==
    << [id |-> 1, title |-> "Introduction to JavaScript",
        slug |-> "introduction-to-javascript",
        description |-> "A beginner's guide to JavaScript.",
        url |-> "https://example.com/videos/intro-to-javascript",
        duration |-> "10:00", topic |-> "JavaScript", isHero |-> FALSE],
       [id |-> 2, title |-> "Advanced CSS Techniques",
        slug |-> "advanced-css-techniques",
        description |-> "Learn advanced CSS techniques.",
        url |-> "https://example.com/videos/advanced-css",
        duration |-> "15:30", topic |-> "CSS", isHero |-> FALSE],
       [id |-> 3, title |-> "React Basics",
        slug |-> "react-basics",
        description |-> "Understanding the basics of React.",
        url |-> "https://example.com/videos/react-basics",
        duration |-> "12:45", topic |-> "React", isHero |-> FALSE],
       [id |-> 4, title |-> "Node.js for Beginners",
        slug |-> "nodejs-for-beginners",
        description |-> "Getting started with Node.js.",
        url |-> "https://example.com/videos/nodejs-beginners",
        duration |-> "20:10", topic |-> "Node.js", isHero |-> FALSE],
       [id |-> 5, title |-> "Python for Data Science",
        slug |-> "python-for-data-science",
        description |-> "Using Python in data science.",
        url |-> "https://example.com/videos/python-data-science",
        duration |-> "18:20", topic |-> "Python", isHero |-> FALSE],
       [id |-> 6, title |-> "Machine Learning 101",
        slug |-> "machine-learning-101",
        description |-> "Introduction to machine learning.",
        url |-> "https://example.com/videos/machine-learning-101",
        duration |-> "25:00", topic |-> "Machine Learning", isHero |-> TRUE],
       [id |-> 7, title |-> "Understanding TypeScript",
        slug |-> "understanding-typescript",
        description |-> "Learn the basics of TypeScript.",
        url |-> "https://example.com/videos/typescript-basics",
        duration |-> "14:35", topic |-> "TypeScript", isHero |-> FALSE],
       [id |-> 8, title |-> "Vue.js Essentials",
        slug |-> "vuejs-essentials",
        description |-> "Essential concepts of Vue.js.",
        url |-> "https://example.com/videos/vuejs-essentials",
        duration |-> "16:50", topic |-> "Vue.js", isHero |-> FALSE],
       [id |-> 9, title |-> "Building RESTful APIs",
        slug |-> "building-restful-apis",
        description |-> "How to build RESTful APIs.",
        url |-> "https://example.com/videos/building-restful-apis",
        duration |-> "22:15", topic |-> "APIs", isHero |-> FALSE],
       [id |-> 10, title |-> "Docker for Developers",
        slug |-> "docker-for-developers",
        description |-> "Using Docker in development.",
        url |-> "https://example.com/videos/docker-for-developers",
        duration |-> "19:40", topic |-> "Docker", isHero |-> FALSE] >>

\* import videos from './videosMock.js': the list the store module receives,
\* with the seventh record a stale copy of the sixth
videos_staleCopy == [videosMock EXCEPT ![7] = videosMock[6]]

\* import videos from './videosMock.js': the list the store module receives
videos == videosMock

\* topics of the generated datasets: two that differ in letter case only,
\* and a third
GenTopics == {"React", "react", "CSS"}

\* arguments callers pass to getVideosByTopics
ArgTopics == GenTopics \cup {"Machine Learning", "NonexistentTopic"}

\* a record literal of the shape videosMock.js uses
VideoRecord(i, t, h) ==
    [id |-> i, title |-> t, slug |-> t, description |-> "", url |-> "",
     duration |-> "00:00", topic |-> t, isHero |-> h]

\* the kinds of record of the generated datasets: two that share a topic
\* and differ in isHero, one whose topic differs from theirs in letter case
\* only, and one of a third topic that is a hero too
GenKinds ==
    { <<"React", FALSE>>, <<"React", TRUE>>, <<"react", FALSE>>, <<"CSS", TRUE>> }

\* the generated datasets: every list of at most MaxLen record literals
Datasets ==
    UNION { { [i \in 1..n |-> VideoRecord(i, f[i][1], f[i][2])] :
                f \in [1..n -> GenKinds] } : n \in 0..MaxLen }

----------------------------------------------------------------------------
(* What a call produces: the array heap it leaves, whether it threw, and   *)
(* the value it returned: undefined, a reference to an object that existed *)
(* before the call, or an array the call created.                          *)

ReturnUndefined(heap) ==
    [heap |-> heap, threw |-> FALSE, kind |-> "undefined", ref |-> Undefined, elems |-> <<>>]

ReturnRef(heap, a) ==
    [heap |-> heap, threw |-> FALSE, kind |-> "ref", ref |-> a, elems |-> <<>>]

ReturnNewArray(heap, s) ==
    [heap |-> heap, threw |-> FALSE, kind |-> "fresh", ref |-> Undefined, elems |-> s]

\* a method call on undefined (this.videos unset) throws a TypeError
TypeError(heap) ==
    [heap |-> heap, threw |-> TRUE, kind |-> "undefined", ref |-> Undefined, elems |-> <<>>]

----------------------------------------------------------------------------
(* Array and Set built-ins *)

Range(s) == {s[i] : i \in DOMAIN s}

Reverse(s) == [i \in 1..Len(s) |-> s[Len(s) + 1 - i]]

\* String.prototype.toLowerCase on the topics in use
toLowerCase(str) ==
    CASE str = "React" -> "react"
      [] str = "CSS" -> "css"
      [] str = "Machine Learning" -> "machine learning"
      [] str = "JavaScript" -> "javascript"
      [] str = "Node.js" -> "node.js"
      [] str = "Python" -> "python"
      [] str = "TypeScript" -> "typescript"
      [] str = "Vue.js" -> "vue.js"
      [] str = "APIs" -> "apis"
      [] str = "Docker" -> "docker"
      [] str = "NonexistentTopic" -> "nonexistenttopic"
      [] OTHER -> str

\* Array.prototype.map with video => video.topic
mapTopic(arr) == [i \in DOMAIN arr |-> records[arr[i]].topic]

\* Set.prototype.add on a Set kept in insertion order
SetAdd(s, x) == IF \E i \in DOMAIN s : s[i] = x THEN s ELSE Append(s, x)

\* new Set(iterable): add the elements from first to last
RECURSIVE NewSet(_)
NewSet(arr) ==
    IF arr = <<>> THEN <<>>
    ELSE SetAdd(NewSet(SubSeq(arr, 1, Len(arr) - 1)), arr[Len(arr)])

\* [...set]: the elements in insertion order
Spread(set) == set

\* Array.prototype.filter with video => video.topic === topicString
filterTopic(arr, topicString) ==
    SelectSeq(arr, LAMBDA a : records[a].topic = topicString)

\* Array.prototype.findLast with video => video.isHero
findHero_last(arr) ==
    LET hits == {i \in DOMAIN arr : records[arr[i]].isHero}
    IN  IF hits = {} THEN Undefined
        ELSE arr[CHOOSE i \in hits : \A j \in hits : i >= j]

\* Array.prototype.find with video => video.isHero
findHero(arr) ==
    LET hits == {i \in DOMAIN arr : records[arr[i]].isHero}
    IN  IF hits = {} THEN Undefined
        ELSE arr[CHOOSE i \in hits : \A j \in hits : i <= j]

----------------------------------------------------------------------------
(* class VideoStore *)

\* a constructor without the `if (!VideoStore.instance)` guard and without
\* `return VideoStore.instance`
constructor_noGuard(st, inst, this) ==
    [stores |-> [st EXCEPT ![this] = [videos |-> VideosAddr]],
     VideoStore_instance |-> this,
     ret |-> this]

\* the constructor body, run on the new object `this` in store heap st
\* with static VideoStore.instance = inst
constructor(st, inst, this) ==
    IF inst = Undefined
    THEN [stores |-> [st EXCEPT ![this] = [videos |-> VideosAddr]],
          VideoStore_instance |-> this,
          ret |-> this]
    ELSE [stores |-> st, VideoStore_instance |-> inst, ret |-> inst]

\* new VideoStore(): allocate an object without fields, run the constructor
new(st, inst) ==
    LET this == CHOOSE a \in StoreAddrs : a \notin DOMAIN st /\
                    \A b \in StoreAddrs : b \notin DOMAIN st => a <= b
    IN  constructor((this :> [videos |-> Undefined]) @@ st, inst, this)

\* getAllVideos that returns a copy, [...this.videos]
getAllVideos_copy(this) ==
    LET v == stores[this].videos
    IN  IF v = Undefined THEN TypeError(arrays)
        ELSE ReturnNewArray(arrays, arrays[v])

\* getAllVideos that returns this.videos.slice().reverse()
getAllVideos_reversedCopy(this) ==
    LET v == stores[this].videos
    IN  IF v = Undefined THEN TypeError(arrays)
        ELSE ReturnNewArray(arrays, Reverse(arrays[v]))

\* getAllVideos that returns this.videos.reverse(), which reverses in place
getAllVideos_reverseInPlace(this) ==
    LET v == stores[this].videos
    IN  IF v = Undefined THEN TypeError(arrays)
        ELSE ReturnRef([arrays EXCEPT ![v] = Reverse(@)], v)

getAllVideos(this) ==
    LET v == stores[this].videos
    IN  IF v = Undefined THEN ReturnUndefined(arrays) ELSE ReturnRef(arrays, v)

\* getTopics without the Set: this.videos.map((video) => video.topic)
getTopics_noSet(this) ==
    LET v == stores[this].videos
    IN  IF v = Undefined THEN TypeError(arrays)
        ELSE ReturnNewArray(arrays, mapTopic(arrays[v]))

\* getTopics that folds the topics with reduce and no initial value, which
\* throws a TypeError on an empty array
getTopics_reduceNoSeed(this) ==
    LET v == stores[this].videos
    IN  IF v = Undefined \/ arrays[v] = <<>> THEN TypeError(arrays)
        ELSE ReturnNewArray(arrays, Spread(NewSet(mapTopic(arrays[v]))))

getTopics(this) ==
    LET v == stores[this].videos
    IN  IF v = Undefined THEN TypeError(arrays)
        ELSE ReturnNewArray(arrays, Spread(NewSet(mapTopic(arrays[v]))))

\* getVideosByTopics with find in place of filter: the first match alone
getVideosByTopics_firstOnly(this, topicString) ==
    LET v == stores[this].videos
    IN  IF v = Undefined THEN TypeError(arrays)
        ELSE LET m == filterTopic(arrays[v], topicString)
             IN  ReturnNewArray(arrays, IF m = <<>> THEN <<>> ELSE <<m[1]>>)

\* getVideosByTopics that compares
\* video.topic.toLowerCase() === topicString.toLowerCase()
getVideosByTopics_ignoreCase(this, topicString) ==
    LET v == stores[this].videos
    IN  IF v = Undefined THEN TypeError(arrays)
        ELSE ReturnNewArray(arrays,
                SelectSeq(arrays[v],
                          LAMBDA a : toLowerCase(records[a].topic) = toLowerCase(topicString)))

\* getVideosByTopics that collects the matches with unshift, last match first
getVideosByTopics_unshift(this, topicString) ==
    LET v == stores[this].videos
    IN  IF v = Undefined THEN TypeError(arrays)
        ELSE ReturnNewArray(arrays, Reverse(filterTopic(arrays[v], topicString)))

\* getVideosByTopics that takes the matches out of this.videos (splice)
\* and returns them
getVideosByTopics_splice(this, topicString) ==
    LET v == stores[this].videos
    IN  IF v = Undefined THEN TypeError(arrays)
        ELSE ReturnNewArray(
                [arrays EXCEPT ![v] =
                    SelectSeq(@, LAMBDA a : records[a].topic # topicString)],
                filterTopic(arrays[v], topicString))

getVideosByTopics(this, topicString) ==
    LET v == stores[this].videos
    IN  IF v = Undefined THEN TypeError(arrays)
        ELSE ReturnNewArray(arrays, filterTopic(arrays[v], topicString))

\* getHeroVideo that reads a field of find's result, as in
\* this.videos.find((video) => video.isHero).id && ..., and so throws on a miss
getHeroVideo_derefMiss(this) ==
    LET v == stores[this].videos
    IN  IF v = Undefined \/ findHero(arrays[v]) = Undefined THEN TypeError(arrays)
        ELSE ReturnRef(arrays, findHero(arrays[v]))

\* getHeroVideo with the predicate negated: find((video) => !video.isHero)
getHeroVideo_negated(this) ==
    LET v == stores[this].videos
    IN  IF v = Undefined THEN TypeError(arrays)
        ELSE LET hits == {i \in DOMAIN arrays[v] : ~records[arrays[v][i]].isHero}
             IN  IF hits = {} THEN ReturnUndefined(arrays)
                 ELSE ReturnRef(arrays, arrays[v][CHOOSE i \in hits : \A j \in hits : i <= j])

getHeroVideo(this) ==
    LET v == stores[this].videos
    IN  IF v = Undefined THEN TypeError(arrays)
        ELSE LET h == findHero(arrays[v])
             IN  IF h = Undefined THEN ReturnUndefined(arrays)
                 ELSE ReturnRef(arrays, h)

----------------------------------------------------------------------------
(* Heaps *)

Free(heap, a) == [x \in DOMAIN heap \ {a} |-> heap[x]]

\* the store objects some reference still leads to
Collect(st, roots) == [a \in DOMAIN st \cap roots |-> st[a]]

NoResult ==
    [op |-> "none", arg |-> "", threw |-> FALSE, kind |-> "undefined", val |-> Undefined]

----------------------------------------------------------------------------
(* Module evaluation: videosMock.js builds the array, then the store       *)
(* module runs `const instance = new VideoStore()`                          *)

Load(ds) ==
    LET r == new(<<>>, Undefined)
    IN  /\ records = ds
        /\ arrays = (VideosAddr :> [i \in 1..Len(ds) |-> i])
        /\ stores = Collect(r.stores, {r.VideoStore_instance, r.ret})
        /\ VideoStore_instance = r.VideoStore_instance
        /\ instance = r.ret
        /\ handle = [c \in Callers |-> Undefined]
        /\ result = [c \in Callers |-> NoResult]
        /\ edits = 0

\* any dataset
Init == \E ds \in Datasets : Load(ds)

\* the shipped dataset
InitSample == Load(videos)

----------------------------------------------------------------------------
(* Callers *)

\* import VideoStore from './VideoStore.svelte.js'
Import(c) ==
    /\ handle[c] = Undefined
    /\ handle' = [handle EXCEPT ![c] = instance]
    /\ UNCHANGED <<records, arrays, stores, VideoStore_instance, instance, result, edits>>

\* new handle.constructor(): the class is reachable through any instance
New(c) ==
    /\ handle[c] # Undefined
    /\ LET r == new(stores, VideoStore_instance)
           h == [handle EXCEPT ![c] = r.ret]
       IN  /\ handle' = h
           /\ VideoStore_instance' = r.VideoStore_instance
           /\ stores' = Collect(r.stores,
                                {r.VideoStore_instance, instance} \cup {h[d] : d \in Callers})
           /\ result' = [result EXCEPT ![c] =
                            [op |-> "new", arg |-> "", threw |-> FALSE,
                             kind |-> "ref", val |-> r.ret]]
           /\ arrays' = Free(arrays, ResultAddr(c))
    /\ UNCHANGED <<records, instance, edits>>

\* caller c takes what a method call produced
Call(c, op, arg, ret) ==
    /\ result' = [result EXCEPT ![c] =
                     [op |-> op, arg |-> arg, threw |-> ret.threw, kind |-> ret.kind,
                      val |-> IF ret.kind = "fresh" THEN ResultAddr(c) ELSE ret.ref]]
    /\ arrays' = IF ret.kind = "fresh"
                 THEN (ResultAddr(c) :> ret.elems) @@ ret.heap
                 ELSE Free(ret.heap, ResultAddr(c))
    /\ UNCHANGED <<records, stores, VideoStore_instance, instance, handle, edits>>

CallGetAllVideos(c) ==
    /\ handle[c] # Undefined
    /\ Call(c, "getAllVideos", "", getAllVideos(handle[c]))

CallGetTopics(c) ==
    /\ handle[c] # Undefined
    /\ Call(c, "getTopics", "", getTopics(handle[c]))

CallGetVideosByTopics(c) ==
    /\ handle[c] # Undefined
    /\ \E t \in ArgTopics :
          Call(c, "getVideosByTopics", t, getVideosByTopics(handle[c], t))

CallGetHeroVideo(c) ==
    /\ handle[c] # Undefined
    /\ Call(c, "getHeroVideo", "", getHeroVideo(handle[c]))

Next ==
    \E c \in Callers :
        \/ Import(c)
        \/ New(c)
        \/ CallGetAllVideos(c)
        \/ CallGetTopics(c)
        \/ CallGetVideosByTopics(c)
        \/ CallGetHeroVideo(c)

Spec == Init /\ [][Next]_vars

SpecSample == InitSample /\ [][Next]_vars

----------------------------------------------------------------------------
(* Callers that edit the array a call returned to them *)

\* the calls that return an array
ArrayQueries == {"getAllVideos", "getTopics", "getVideosByTopics"}

\* the edits: add an element, remove one, reorder
Edits == {"push", "pop", "reverse"}

\* Array.prototype.push (of the array's own first element), pop and reverse
Edited(arr, e) ==
    CASE e = "push" -> Append(arr, arr[1])
      [] e = "pop" -> SubSeq(arr, 1, Len(arr) - 1)
      [] e = "reverse" -> Reverse(arr)

\* caller c edits in place the array its last call returned
Edit(c, e) ==
    /\ edits < MaxEdits
    /\ result[c].op \in ArrayQueries
    /\ ~result[c].threw
    /\ result[c].kind # "undefined"
    /\ e = "push" => Len(arrays[result[c].val]) >= 1
    /\ e = "pop" => Len(arrays[result[c].val]) >= 1
    /\ e = "reverse" => Len(arrays[result[c].val]) >= 2
    /\ arrays' = [arrays EXCEPT ![result[c].val] = Edited(@, e)]
    /\ edits' = edits + 1
    /\ UNCHANGED <<records, stores, VideoStore_instance, instance, handle, result>>

\* the caller that edits: calls are atomic and every handle is the one
\* store, so what one caller's later calls see is what any caller's see
Editor == CHOOSE c \in Callers : \A d \in Callers : c <= d

NextEdits ==
    \/ Import(Editor)
    \/ New(Editor)
    \/ CallGetAllVideos(Editor)
    \/ CallGetTopics(Editor)
    \/ CallGetVideosByTopics(Editor)
    \/ CallGetHeroVideo(Editor)
    \/ \E e \in Edits : Edit(Editor, e)

SpecEdits == Init /\ [][NextEdits]_vars

----------------------------------------------------------------------------
(* Properties *)

\* the store's collection: the array the one store object's videos field
\* refers to
Collection == arrays[stores[VideoStore_instance].videos]

\* the topics of the records of the collection
CollectionTopics == {records[a].topic : a \in Range(Collection)}

\* the array caller c's last call returned
Returned(c) == arrays[result[c].val]

\* C1: getVideosByTopics(t) returns exactly the records whose topic is t:
\* every returned record is a record of the collection with topic t, and
\* every record of the collection with topic t is returned exactly once.
C1_ByTopicExact ==
    \A c \in Callers :
        result[c].op = "getVideosByTopics" =>
            /\ ~result[c].threw
            /\ result[c].kind = "fresh"
            /\ \A j \in DOMAIN Returned(c) :
                  /\ Returned(c)[j] \in Range(Collection)
                  /\ records[Returned(c)[j]].topic = result[c].arg
            /\ \A i \in DOMAIN Collection :
                  records[Collection[i]].topic = result[c].arg =>
                      Cardinality({j \in DOMAIN Returned(c) :
                                      Returned(c)[j] = Collection[i]}) = 1

\* C1's case: a query whose topic two records share and a third has not
C1_Witness ==
    \E c \in Callers :
        /\ result[c].op = "getVideosByTopics"
        /\ Len(Returned(c)) = 2
        /\ Len(Collection) = 3

\* C2: getTopics() has no duplicates, every value it returns is the topic
\* of some record, and every topic of the collection is in it exactly once.
C2_TopicsDistinct ==
    \A c \in Callers :
        result[c].op = "getTopics" =>
            /\ ~result[c].threw
            /\ result[c].kind = "fresh"
            /\ \A i, j \in DOMAIN Returned(c) :
                  Returned(c)[i] = Returned(c)[j] => i = j
            /\ \A j \in DOMAIN Returned(c) : Returned(c)[j] \in CollectionTopics
            /\ \A t \in CollectionTopics :
                  Cardinality({j \in DOMAIN Returned(c) : Returned(c)[j] = t}) = 1

\* C2's case: three records of two topics
C2_Witness ==
    \E c \in Callers :
        /\ result[c].op = "getTopics"
        /\ Len(Collection) = 3
        /\ Len(Returned(c)) = 2

\* the positions of the collection that hold a hero record
Heroes == {i \in DOMAIN Collection : records[Collection[i]].isHero}

\* C3: getHeroVideo() returns the one record with isHero when there is
\* exactly one, and returns undefined, without throwing, when there is none.
C3_HeroOrAbsent ==
    \A c \in Callers :
        result[c].op = "getHeroVideo" =>
            /\ Cardinality(Heroes) = 1 =>
                  /\ ~result[c].threw
                  /\ result[c].kind = "ref"
                  /\ \E i \in Heroes : result[c].val = Collection[i]
            /\ Heroes = {} =>
                  /\ ~result[c].threw
                  /\ result[c].kind = "undefined"

\* C3's case: the one hero, which is not the first record, was returned
C3_Witness ==
    \E c \in Callers :
        /\ result[c].op = "getHeroVideo"
        /\ Cardinality(Heroes) = 1
        /\ 1 \notin Heroes
        /\ result[c].kind = "ref"

\* C4: getAllVideos() returns the whole collection: as many elements as
\* the input has records, in the input's order.
C4_AllVideosInOrder ==
    \A c \in Callers :
        result[c].op = "getAllVideos" =>
            /\ ~result[c].threw
            /\ result[c].kind # "undefined"
            /\ Len(Returned(c)) = Len(records)
            /\ \A i \in DOMAIN Returned(c) : Returned(c)[i] = i

\* C4's case: all of a dataset of three records was returned
C4_Witness ==
    \E c \in Callers :
        /\ result[c].op = "getAllVideos"
        /\ Len(Returned(c)) = 3

\* C5: there is one VideoStore object: the static, the export and every
\* handle are that object, every construction returned it, its videos
\* field still refers to the imported array, and any two handles answer
\* every query alike.
C5_Singleton ==
    /\ VideoStore_instance # Undefined
    /\ instance = VideoStore_instance
    /\ DOMAIN stores = {VideoStore_instance}
    /\ stores[VideoStore_instance].videos = VideosAddr
    /\ \A c \in Callers :
          /\ handle[c] \in {Undefined, VideoStore_instance}
          /\ result[c].op = "new" => result[c].val = instance
    /\ \A c, d \in Callers :
          (c < d /\ handle[c] # Undefined /\ handle[d] # Undefined) =>
              /\ getAllVideos(handle[c]) = getAllVideos(handle[d])
              /\ getTopics(handle[c]) = getTopics(handle[d])
              /\ getHeroVideo(handle[c]) = getHeroVideo(handle[d])
              /\ \A t \in ArgTopics :
                    getVideosByTopics(handle[c], t) = getVideosByTopics(handle[d], t)

\* C5's case: one caller constructed again while another holds the export
C5_Witness ==
    \E c, d \in Callers :
        /\ c # d
        /\ result[c].op = "new"
        /\ handle[d] # Undefined
        /\ Len(Collection) >= 1

\* the four query operations
Queries == {"getAllVideos", "getTopics", "getVideosByTopics", "getHeroVideo"}

\* C6: no step changes the collection: it holds the same records in the
\* same order, and each of them has the same fields, after every call.
C6_CollectionImmutable ==
    [][ /\ Collection' = Collection
        /\ records' = records ]_vars

\* C6's case: every caller has made a query on a collection of several
\* records, one of them getAllVideos
C6_Witness ==
    /\ Len(Collection) >= 2
    /\ \A c \in Callers : result[c].op \in Queries
    /\ \E c \in Callers : result[c].op = "getAllVideos"

\* C7: nothing but the store refers to the store's collection: no caller
\* holds a reference to it as the result of a call, and it is not the array
\* the data module holds.
C7_ExclusiveOwnership ==
    /\ \A c \in Callers :
          ~(result[c].kind = "ref" /\ result[c].op = "getAllVideos"
              /\ result[c].val = stores[VideoStore_instance].videos)
    /\ stores[VideoStore_instance].videos # VideosAddr

\* C7's case: a caller holds, as the result of getAllVideos, a reference to
\* the very array the store's videos field refers to
C7_Witness ==
    \E c \in Callers :
        /\ result[c].op = "getAllVideos"
        /\ result[c].kind = "ref"
        /\ result[c].val = stores[VideoStore_instance].videos
        /\ Len(Collection) >= 2

\* C8: a call getVideosByTopics(t) with t the topic of no record returns
\* an empty array without throwing and leaves the store, the collection and
\* the records as they were.
C8_UnmatchedTopicEmpty ==
    [][ \A c \in Callers :
          ( /\ result'[c] # result[c]
            /\ result'[c].op = "getVideosByTopics"
            /\ result'[c].arg \notin CollectionTopics )
          =>
          ( /\ ~result'[c].threw
            /\ result'[c].kind = "fresh"
            /\ arrays'[result'[c].val] = <<>>
            /\ stores' = stores
            /\ VideoStore_instance' = VideoStore_instance
            /\ Collection' = Collection
            /\ records' = records ) ]_vars

\* C8's case: "react" was asked for of a collection that has "React" and
\* has not "react"
C8_Witness ==
    \E c \in Callers :
        /\ result[c].op = "getVideosByTopics"
        /\ result[c].arg = "react"
        /\ "React" \in CollectionTopics
        /\ "react" \notin CollectionTopics
        /\ Returned(c) = <<>>

\* C9: on the shipped dataset getAllVideos() has ten elements, getTopics()
\* holds the ten topics and no other, getVideosByTopics("React") is the one
\* record titled "React Basics" and getHeroVideo() is the record titled
\* "Machine Learning 101".
C9_SampleScenario ==
    \A c \in Callers :
        /\ result[c].op \in Queries => ~result[c].threw
        /\ result[c].op = "getAllVideos" =>
              /\ result[c].kind # "undefined"
              /\ Len(Returned(c)) = 10
        /\ result[c].op = "getTopics" =>
              Range(Returned(c)) =
                  {"JavaScript", "CSS", "React", "Node.js", "Python",
                   "Machine Learning", "TypeScript", "Vue.js", "APIs", "Docker"}
        /\ (result[c].op = "getVideosByTopics" /\ result[c].arg = "React") =>
              /\ Len(Returned(c)) = 1
              /\ records[Returned(c)[1]].title = "React Basics"
        /\ result[c].op = "getHeroVideo" =>
              /\ result[c].kind = "ref"
              /\ records[result[c].val].title = "Machine Learning 101"

\* C9's case: one caller asked for the hero and another for "React"
C9_Witness ==
    \E c, d \in Callers :
        /\ result[c].op = "getHeroVideo"
        /\ result[d].op = "getVideosByTopics"
        /\ result[d].arg = "React"

\* C10: in the collection no two records share an id, no two share a slug,
\* and exactly one record is a hero.
C10_DataInvariants ==
    /\ \A i, j \in DOMAIN Collection :
          records[Collection[i]].id = records[Collection[j]].id => i = j
    /\ \A i, j \in DOMAIN Collection :
          records[Collection[i]].slug = records[Collection[j]].slug => i = j
    /\ Cardinality(Heroes) = 1

\* C10's case: the ten records are loaded and every caller has had a
\* reference to the collection or to a record of it
C10_Witness ==
    /\ Len(Collection) = 10
    /\ \A c \in Callers : result[c].kind = "ref" /\ result[c].op \in Queries

\* the collection as module evaluation left it: the records in source order
AtLoad == [i \in 1..Len(records) |-> i]

\* C11: whatever calls the callers have interleaved, what each caller's
\* last query returned is what that query returns when it runs alone on
\* the store as loaded.
C11_NoRace ==
    \A c \in Callers :
        result[c].op \in Queries =>
            /\ ~result[c].threw
            /\ result[c].op = "getAllVideos" =>
                  result[c].kind = "ref" /\ Returned(c) = AtLoad
            /\ result[c].op = "getTopics" =>
                  result[c].kind = "fresh"
                    /\ Returned(c) = Spread(NewSet(mapTopic(AtLoad)))
            /\ result[c].op = "getVideosByTopics" =>
                  result[c].kind = "fresh"
                    /\ Returned(c) = filterTopic(AtLoad, result[c].arg)
            /\ result[c].op = "getHeroVideo" =>
                  result[c].val = findHero(AtLoad)

\* C11's case: two callers hold the answers to different queries on a
\* collection of three records of two topics
C11_Witness ==
    \E c, d \in Callers :
        /\ c # d
        /\ result[c].op = "getVideosByTopics"
        /\ Len(Returned(c)) = 1
        /\ result[d].op = "getTopics"
        /\ Len(Returned(d)) = 2
        /\ Len(Collection) = 3

\* C12: on an empty collection no query throws: getTopics() and
\* getVideosByTopics(t) return empty arrays, getAllVideos() returns the
\* empty collection and getHeroVideo() returns undefined.
C12_EmptyCollection ==
    Collection = <<>> =>
        \A c \in Callers :
            result[c].op \in Queries =>
                /\ ~result[c].threw
                /\ result[c].op = "getHeroVideo" => result[c].kind = "undefined"
                /\ result[c].op # "getHeroVideo" =>
                      result[c].kind # "undefined" /\ Returned(c) = <<>>

\* C12's case: the collection is empty and the callers have asked for the
\* topics and for the videos of a topic
C12_Witness ==
    /\ Collection = <<>>
    /\ \E c, d \in Callers :
          /\ result[c].op = "getTopics"
          /\ result[d].op = "getVideosByTopics"

\* C13: when several records are heroes, getHeroVideo() returns the one
\* at the smallest position of the collection.
C13_FirstHero ==
    \A c \in Callers :
        (result[c].op = "getHeroVideo" /\ Cardinality(Heroes) > 1) =>
            /\ ~result[c].threw
            /\ result[c].kind = "ref"
            /\ \E i \in Heroes :
                  /\ result[c].val = Collection[i]
                  /\ \A j \in Heroes : i <= j

\* C13's case: two heroes after a record that is none
C13_Witness ==
    \E c \in Callers :
        /\ result[c].op = "getHeroVideo"
        /\ Heroes = {2, 3}
        /\ result[c].val = Collection[2]

\* the position of record a in the collection
PositionOf(a) == CHOOSE i \in DOMAIN Collection : Collection[i] = a

\* C14: getVideosByTopics(t) keeps the collection's order: of two returned
\* records, one comes before the other in the result exactly when it does
\* in the collection.
C14_SourceOrder ==
    \A c \in Callers :
        result[c].op = "getVideosByTopics" =>
            /\ ~result[c].threw
            /\ \A i, j \in DOMAIN Returned(c) :
                  /\ Returned(c)[i] \in Range(Collection)
                  /\ (i < j) <=> (PositionOf(Returned(c)[i]) < PositionOf(Returned(c)[j]))

\* C14's case: the first and the third record were returned, the second
\* is of another topic
C14_Witness ==
    \E c \in Callers :
        /\ result[c].op = "getVideosByTopics"
        /\ Len(Collection) = 3
        /\ Returned(c) = <<Collection[1], Collection[3]>>

\* C15: the answers to getVideosByTopics(t), t over what getTopics()
\* returned, split the collection: none is empty, no record is in two of
\* them or twice in one, and every record of getAllVideos() is in one.
C15_TopicsPartition ==
    \A c \in Callers :
        (result[c].op = "getTopics" /\ ~result[c].threw) =>
            LET part(t) == getVideosByTopics(handle[c], t)
                all == arrays[getAllVideos(handle[c]).ref]
            IN  /\ \A i \in DOMAIN Returned(c) :
                      /\ ~part(Returned(c)[i]).threw
                      /\ part(Returned(c)[i]).elems # <<>>
                /\ \A i, j \in DOMAIN Returned(c) :
                      i # j => Range(part(Returned(c)[i]).elems)
                                 \cap Range(part(Returned(c)[j]).elems) = {}
                /\ \A k \in DOMAIN all :
                      Cardinality({ <<i, n>> \in (DOMAIN Returned(c)) \X (DOMAIN all) :
                                      /\ n \in DOMAIN part(Returned(c)[i]).elems
                                      /\ part(Returned(c)[i]).elems[n] = all[k] }) = 1
                /\ \A d \in Callers :
                      (result[d].op = "getVideosByTopics"
                         /\ result[d].arg \in Range(Returned(c))) =>
                          Returned(d) = part(result[d].arg).elems

\* C15's case: the topics of three records of two topics were returned to
\* one caller and the two records of one topic to another
C15_Witness ==
    \E c, d \in Callers :
        /\ result[c].op = "getTopics"
        /\ Len(Returned(c)) = 2
        /\ result[d].op = "getVideosByTopics"
        /\ result[d].arg \in Range(Returned(c))
        /\ Len(Returned(d)) = 2

\* what a call returned, as a value: the elements of the array it returned
\* or refers to
ValueOf(ret) ==
    IF ret.kind = "fresh" THEN ret.elems
    ELSE IF ret.kind = "ref" THEN arrays[ret.ref] ELSE <<>>

\* what the four queries answer in the current state
QueryAnswers ==
    [all |-> ValueOf(getAllVideos(instance)),
     topics |-> ValueOf(getTopics(instance)),
     byTopic |-> [t \in ArgTopics |-> ValueOf(getVideosByTopics(instance, t))],
     hero |-> getHeroVideo(instance).ref]

\* the answers over a collection that holds arr
AnswersOn(arr) ==
    [all |-> arr,
     topics |-> Spread(NewSet(mapTopic(arr))),
     byTopic |-> [t \in ArgTopics |-> filterTopic(arr, t)],
     hero |-> findHero(arr)]

\* C16: an edit of an array getTopics() or getVideosByTopics(t) returned
\* leaves the collection as it was; an edit of what getAllVideos() returned
\* is that edit of the collection; and in every state each query answers
\* over the collection as it then is, so later queries answer as before in
\* the first case and over the edited collection in the second.
C16_FreshOrLive ==
    /\ [](QueryAnswers = AnswersOn(Collection))
    /\ [][ \A e \in Edits :
              (edits' = edits + 1 /\ Edit(Editor, e)) =>
                /\ result[Editor].op \in {"getTopics", "getVideosByTopics"} =>
                      /\ result[Editor].kind = "fresh"
                      /\ Collection' = Collection
                /\ result[Editor].op = "getAllVideos" =>
                      /\ result[Editor].kind = "ref"
                      /\ Collection' = Edited(Collection, e) ]_vars

\* C16's case: the collection was edited through what getAllVideos()
\* returned, and a later getTopics() answered over the edited collection,
\* not over the loaded one
C16_Witness ==
    /\ edits = 1
    /\ Collection # AtLoad
    /\ result[Editor].op = "getTopics"
    /\ Returned(Editor) = Spread(NewSet(mapTopic(Collection)))
    /\ Returned(Editor) # Spread(NewSet(mapTopic(AtLoad)))

====
